---- MODULE Spec2Model ----
(***************************************************************************)
(* A model of xdoctest's doctest parser (src/xdoctest/parser.py).          *)
(*                                                                         *)
(* A docstring is a sequence of physical lines; a line is a sequence of    *)
(* one-character strings.  The characters " ", ">", "." and "\t" are       *)
(* themselves.  The other characters stand for the Python fragments the    *)
(* parser distinguishes through its collaborators:                         *)
(*    "e"  a name or literal (a bare expression)                           *)
(*    "c"  a print(...) call (also a bare expression)                      *)
(*    "a"  an assignment  x = 1                                            *)
(*    "("  ")"  brackets, which let a statement span several lines         *)
(*    "q"  a triple quote, which opens or closes a multi-line string       *)
(*    "#"  a comment without a directive (to the end of the line)          *)
(*    "D"  a comment that carries one directive (# xdoctest: +SKIP)        *)
(*    "t"  a word of narrative text, or of expected output                 *)
(***************************************************************************)
EXTENDS Integers, Sequences, FiniteSets, TLC

VARIABLES
    simulate_repl,   \* DoctestParser.simulate_repl
    docstring,       \* the argument of parse, as lines
    string,          \* parse's local `string` after lines 310-314, as lines
    pc,              \* "start", "label", "package", "done", "error", "hang"
    line_idx,        \* the shared cursor line_iter (1-based index of the next line)
    prev_state,      \* labeler state
    state_indent,    \* labeler state
    labeled_lines,   \* labeler output so far
    grouped_lines,   \* grouper output
    chunk_idx,       \* position of _package_groups in grouped_lines (1-based)
    lineno,          \* _package_groups' running line count
    yielded,         \* what _package_groups has yielded so far
    all_parts,       \* what parse returned (meaningful when pc = "done")
    bug16806,        \* the Python that runs the parser has issue 16806
    orig_ex,         \* the exception wrapped by DoctestParseError ("" when none)
    formatted,       \* the last call of DoctestPart.format_src and what it returned
    checked          \* the call of DoctestPart.check_got_vs_want and how it ended

vars == <<simulate_repl, docstring, string, pc, line_idx, prev_state,
          state_indent, labeled_lines, grouped_lines, chunk_idx, lineno,
          yielded, all_parts, bug16806, orig_ex, formatted, checked>>

\* ------------------------------------------------------------------ bounds

MaxLines == 3

\* the longest docstring of the specification of statement blocks, in lines
MaxBlockLines == 5

\* the longest docstring of the specification of multi-line strings, in lines
MaxStringLines == 4

\* Python's default tab size, used by str.expandtabs()
TabSize == 8

\* ------------------------------------------------------------- python str

None == <<>>
Some(x) == <<x>>
IsNone(o) == o = <<>>

Min(a, b) == IF a < b THEN a ELSE b
Max(a, b) == IF a > b THEN a ELSE b

\* s[:k] and s[k:] for k >= 0
Take(s, k) == SubSeq(s, 1, Min(k, Len(s)))
Drop(s, k) == SubSeq(s, Min(k, Len(s)) + 1, Len(s))

\* s[a:b] with Python's handling of negative and out-of-range indices
PyNorm(n, i) == IF i < 0 THEN Max(0, n + i) ELSE Min(i, n)
PySlice(s, a, b) == SubSeq(s, PyNorm(Len(s), a) + 1, PyNorm(Len(s), b))

\* s[i] for -len <= i < len
PyIndex(s, i) == IF i < 0 THEN s[Len(s) + i + 1] ELSE s[i + 1]

IsSpace(c) == c \in {" ", "\t", "\n"}

RECURSIVE lstrip(_)
lstrip(s) == IF s = <<>> \/ ~IsSpace(Head(s)) THEN s ELSE lstrip(Tail(s))

RECURSIVE rstrip(_)
rstrip(s) ==
    IF s = <<>> \/ ~IsSpace(s[Len(s)]) THEN s ELSE rstrip(SubSeq(s, 1, Len(s) - 1))

strip(s) == rstrip(lstrip(s))

startswith(s, p) == Len(s) >= Len(p) /\ SubSeq(s, 1, Len(p)) = p

PS1 == <<">", ">", ">", " ">>
PS2 == <<".", ".", ".", " ">>

RECURSIVE LeadingSpaces(_)
LeadingSpaces(s) ==
    IF s = <<>> \/ Head(s) # " " THEN 0 ELSE 1 + LeadingSpaces(Tail(s))

\* INDENT_RE.search(line) is not None: spaces followed by a non-blank character
IndentMatches(line) ==
    LET k == LeadingSpaces(line) IN k < Len(line) /\ ~IsSpace(line[k + 1])

\* match.end() - match.start(), or 0 when there is no match
IndentOf(line) == IF IndentMatches(line) THEN LeadingSpaces(line) ELSE 0

RECURSIVE ExpandFrom(_, _)
ExpandFrom(s, col) ==
    IF s = <<>> THEN <<>>
    ELSE IF Head(s) = "\t"
         THEN LET pad == TabSize - (col % TabSize) IN
              [i \in 1..pad |-> " "] \o ExpandFrom(Tail(s), col + pad)
         ELSE <<Head(s)>> \o ExpandFrom(Tail(s), col + 1)

\* str.expandtabs(), line by line (the column restarts after each newline)
expandtabs(lines) == [i \in 1..Len(lines) |-> ExpandFrom(lines[i], 0)]

min_indentation(lines) ==
    LET matching == {i \in 1..Len(lines) : IndentMatches(lines[i])} IN
    IF matching = {} THEN 0
    ELSE CHOOSE m \in {LeadingSpaces(lines[i]) : i \in matching} :
             \A i \in matching : m <= LeadingSpaces(lines[i])

\* '\n'.join(lines)
RECURSIVE join(_)
join(lines) ==
    IF lines = <<>> THEN <<>>
    ELSE IF Len(lines) = 1 THEN lines[1]
    ELSE lines[1] \o <<"\n">> \o join(Tail(lines))

\* str.splitlines(), for text whose only line boundary is "\n": cur is the
\* line read so far
RECURSIVE SplitFrom(_, _)
SplitFrom(text, cur) ==
    IF text = <<>> THEN (IF cur = <<>> THEN <<>> ELSE <<cur>>)
    ELSE IF Head(text) = "\n" THEN <<cur>> \o SplitFrom(Tail(text), <<>>)
    ELSE SplitFrom(Tail(text), Append(cur, Head(text)))

splitlines(text) == SplitFrom(text, <<>>)

\* ------------------------------------------------------- collaborators
\* The balance oracle (static.is_balanced_statement), the directive extractor
\* (directive.extract) and Python's ast.parse are not part of parser.py.  They
\* are modelled over the character alphabet of this module: one scanner
\* recognises complete top-level statements, and the three collaborators are
\* read off its result.

ScanInit ==
    [depth |-> 0, inStr |-> FALSE, cmt |-> FALSE, err |-> FALSE,
     cur |-> "none", curStart |-> 0, firstTok |-> "other", strEnd |-> -1,
     last |-> "none", stmts |-> <<>>]

\* the first token of a statement: an indented one is an IndentationError
StartStmt(st, kind, tok, i, indented) ==
    IF st.cur # "none" THEN st
    ELSE IF indented THEN [st EXCEPT !.err = TRUE]
    ELSE [st EXCEPT !.cur = kind, !.curStart = i, !.firstTok = tok, !.strEnd = -1]

ScanChar(st, c, i, indented) ==
    IF st.err \/ st.cmt THEN st
    ELSE IF st.inStr THEN
        IF c = "q"
        THEN [st EXCEPT !.inStr = FALSE, !.last = "str",
                        !.strEnd = IF st.firstTok = "str" /\ st.strEnd = -1
                                   THEN i ELSE st.strEnd]
        ELSE st
    ELSE CASE c = " " -> st
           [] c \in {"#", "D"} -> [st EXCEPT !.cmt = TRUE]
           [] c \in {"e", "c"} ->
                IF st.last \in {"none", "open"}
                THEN [StartStmt(st, "Expr", "other", i, indented) EXCEPT !.last = "atom"]
                ELSE [st EXCEPT !.err = TRUE]
           [] c = "a" ->
                IF st.cur = "none"
                THEN [StartStmt(st, "Assign", "other", i, indented) EXCEPT !.last = "atom"]
                ELSE [st EXCEPT !.err = TRUE]
           [] c = "q" ->
                IF st.last \in {"none", "open", "str"}
                THEN [StartStmt(st, "Expr", "str", i, indented) EXCEPT !.inStr = TRUE]
                ELSE [st EXCEPT !.err = TRUE]
           [] c = "(" ->
                [StartStmt(st, "Expr", "other", i, indented) EXCEPT
                    !.depth = st.depth + 1, !.last = "open"]
           [] c = ")" ->
                IF st.depth = 0 THEN [st EXCEPT !.err = TRUE]
                ELSE [st EXCEPT !.depth = st.depth - 1, !.last = "close"]
           [] OTHER -> [st EXCEPT !.err = TRUE]

RECURSIVE ScanChars(_, _, _, _, _)
ScanChars(st, line, j, i, indented) ==
    IF j > Len(line) THEN st
    ELSE ScanChars(ScanChar(st, line[j], i, indented), line, j + 1, i, indented)

\* the newline that ends physical line i
EndLine(st) ==
    LET s1 == [st EXCEPT !.cmt = FALSE] IN
    IF s1.err \/ s1.inStr \/ s1.depth > 0 \/ s1.cur = "none" THEN s1
    ELSE [s1 EXCEPT !.stmts = Append(s1.stmts,
                         [kind |-> s1.cur, first |-> s1.curStart,
                          firstTok |-> s1.firstTok, strEnd |-> s1.strEnd]),
                    !.cur = "none", !.last = "none"]

\* lines[i..] scanned from state st; i is a 0-based line index
RECURSIVE ScanLines(_, _, _)
ScanLines(st, lines, i) ==
    IF i >= Len(lines) THEN st
    ELSE LET line == lines[i + 1]
             indented == line # <<>> /\ line[1] = " " /\ st.depth = 0 /\ ~st.inStr
         IN ScanLines(EndLine(ScanChars(st, line, 1, i, indented)), lines, i + 1)

Scan(lines) == ScanLines(ScanInit, lines, 0)

\* the lines form zero or more complete top-level statements
Complete(st) == ~st.err /\ ~st.inStr /\ st.depth = 0

is_balanced_statement(lines) == Complete(Scan(lines))

\* ast.parse(block).body as (kind, lineno - 1) pairs.  Python before 3.8
\* reports a statement that begins with a multi-line string at the line where
\* the string ends (issue 16806); bug says whether this Python does.
NodeLineno0(node, bug) ==
    IF bug /\ node.firstTok = "str" /\ node.strEnd >= 0 THEN node.strEnd
    ELSE node.first

ast_parse(lines) ==
    LET st == Scan(lines) IN [ok |-> Complete(st), body |-> st.stmts]

\* directive.extract(text): one directive for every "D" comment; a comment
\* runs to the end of its line and there is none inside a string
RECURSIVE ExtractChars(_, _, _)
ExtractChars(line, j, inStr) ==
    IF j > Len(line) THEN [dirs |-> <<>>, inStr |-> inStr]
    ELSE IF inStr THEN ExtractChars(line, j + 1, line[j] # "q")
    ELSE IF line[j] = "D" THEN [dirs |-> <<"SKIP">>, inStr |-> FALSE]
    ELSE IF line[j] = "#" THEN [dirs |-> <<>>, inStr |-> FALSE]
    ELSE ExtractChars(line, j + 1, line[j] = "q")

RECURSIVE ExtractLines(_, _)
ExtractLines(lines, inStr) ==
    IF lines = <<>> THEN <<>>
    ELSE LET r == ExtractChars(Head(lines), 1, inStr) IN
         r.dirs \o ExtractLines(Tail(lines), r.inStr)

extract(lines) == ExtractLines(lines, FALSE)

\* ----------------------------------------------------------------- labeler

TEXT == "text"
DSRC == "dsrc"
WANT == "want"

\* a mutation of CurrState: in the text state a line that is neither blank nor
\* a prompt begins a want
CurrStateTextToWant(prev, line, indent) ==
    LET line_indent == IndentOf(line)
        norm_line == Drop(line, indent)
        strip_line == strip(line)
    IN  IF prev = TEXT THEN
            IF startswith(strip_line, PS1) THEN DSRC
            ELSE IF Len(strip_line) = 0 THEN TEXT
            ELSE WANT
        ELSE IF prev = WANT THEN
            IF Len(strip_line) = 0 THEN TEXT
            ELSE IF startswith(strip(line), PS1) THEN DSRC
            ELSE IF line_indent < indent THEN TEXT
            ELSE WANT
        ELSE
            IF Len(strip_line) = 0 \/ line_indent < indent THEN TEXT
            ELSE IF startswith(norm_line, PS1) \/ startswith(norm_line, PS2) THEN
                IF strip_line = <<".", ".", ".">> THEN WANT ELSE DSRC
            ELSE WANT

\* _label_docsrc_lines, lines 624-661: the state of the current line
CurrState(prev, line, indent) ==
    LET line_indent == IndentOf(line)
        norm_line == Drop(line, indent)
        strip_line == strip(line)
    IN  IF prev = TEXT THEN
            IF startswith(strip_line, PS1) THEN DSRC ELSE TEXT
        ELSE IF prev = WANT THEN
            IF Len(strip_line) = 0 THEN TEXT
            ELSE IF startswith(strip(line), PS1) THEN DSRC
            ELSE IF line_indent < indent THEN TEXT
            ELSE WANT
        ELSE
            IF Len(strip_line) = 0 \/ line_indent < indent THEN TEXT
            ELSE IF startswith(norm_line, PS1) \/ startswith(norm_line, PS2) THEN
                IF strip_line = <<".", ".", ".">> THEN WANT ELSE DSRC
            ELSE WANT

\* a mutation of NextIndent: the reset on entry to the text state is forgotten
NextIndentNoReset(prev, curr, line, indent) ==
    IF prev # curr /\ curr = DSRC THEN IndentOf(line) ELSE indent

\* _label_docsrc_lines, lines 664-672: the indentation of the current state
NextIndent(prev, curr, line, indent) ==
    IF prev # curr /\ curr = TEXT THEN 0
    ELSE IF prev # curr /\ curr = DSRC THEN IndentOf(line)
    ELSE indent

\* a mutation of Exhausted: the StopIteration ends the generator silently
ExhaustedSilently(yield) == [yield |-> yield, ex |-> ""]

\* what the loop of _complete_source does when line_iter is exhausted
Exhausted(yield) == [yield |-> yield, ex |-> "ill-formed doctest"]

\* a mutation of PullSource: a pulled line must begin with a prompt or be blank
RECURSIVE PullSourceStrictPrefix(_, _, _, _, _)
PullSourceStrictPrefix(lines, k, indent, source_parts, yield) ==
    IF is_balanced_statement(source_parts) THEN [yield |-> yield, ex |-> ""]
    ELSE IF k >= Len(lines) THEN Exhausted(yield)
    ELSE LET next_line == lines[k + 1]
             norm_line == Drop(next_line, indent)
         IN  IF ~(startswith(norm_line, PS1) \/ startswith(norm_line, PS2)
                    \/ strip(norm_line) = <<>>)
             THEN [yield |-> yield, ex |-> "Bad indentation in doctest"]
             ELSE PullSourceStrictPrefix(lines, k + 1, indent,
                      Append(source_parts, Drop(norm_line, 4)), Append(yield, next_line))

\* a mutation of PullSource: the prefix of a pulled line is not looked at
RECURSIVE PullSourceAnyPrefix(_, _, _, _, _)
PullSourceAnyPrefix(lines, k, indent, source_parts, yield) ==
    IF is_balanced_statement(source_parts) THEN [yield |-> yield, ex |-> ""]
    ELSE IF k >= Len(lines) THEN Exhausted(yield)
    ELSE LET next_line == lines[k + 1]
             suffix == Drop(Drop(next_line, indent), 4)
         IN  PullSourceAnyPrefix(lines, k + 1, indent, Append(source_parts, suffix),
                                 Append(yield, next_line))

\* the loop of _complete_source: lines[k] was the last line taken from line_iter
RECURSIVE PullSource(_, _, _, _, _)
PullSource(lines, k, indent, source_parts, yield) ==
    IF is_balanced_statement(source_parts) THEN [yield |-> yield, ex |-> ""]
    ELSE IF k >= Len(lines) THEN Exhausted(yield)
    ELSE LET next_line == lines[k + 1]
             norm_line == Drop(next_line, indent)
             prefix == Take(norm_line, 4)
             suffix == Drop(norm_line, 4)
         IN  IF strip(prefix) \notin {<<">", ">", ">">>, <<".", ".", ".">>, <<>>}
             THEN [yield |-> yield, ex |-> "Bad indentation in doctest"]
             ELSE PullSource(lines, k + 1, indent, Append(source_parts, suffix),
                             Append(yield, next_line))

\* _complete_source(line, state_indent, line_iter), where line = lines[idx] and
\* line_iter stands after it: the lines it yields, and the exception it raises
complete_source(lines, idx, indent) ==
    LET norm_line == Drop(lines[idx], indent)
        prefix == Take(norm_line, 4)
        suffix == Drop(norm_line, 4)
    IN  IF strip(prefix) \notin {<<">", ">", ">">>, <<".", ".", ".">>}
        THEN [yield |-> <<>>, ex |-> "AssertionError"]
        ELSE PullSource(lines, idx, indent, <<suffix>>, <<lines[idx]>>)

\* a mutation of Labeled: only the first yielded line is appended
LabeledFirstOnly(state, lines) == << <<state, lines[1]>> >>

\* labeled_lines.append((state, part)) for every yielded part
Labeled(state, lines) == [i \in 1..Len(lines) |-> <<state, lines[i]>>]

\* ----------------------------------------------------------------- grouper

TupleChunk(slines, wlines) == [kind |-> "tuple", slines |-> slines, wlines |-> wlines]
TextChunk(block) == [kind |-> "text", lines |-> block]

\* the length of the first run of equal states (itertools.groupby)
RECURSIVE RunLen(_, _)
RunLen(labeled, state) ==
    IF labeled = <<>> \/ Head(labeled)[1] # state THEN 0
    ELSE 1 + RunLen(Tail(labeled), state)

\* the loop of _group_labeled_lines; prev_source is None or Some(block)
RECURSIVE GroupRuns(_, _, _)
GroupRuns(labeled, prev_source, grouped) ==
    IF labeled = <<>> THEN
        [ex |-> "",
         grouped |-> IF ~IsNone(prev_source) /\ prev_source[1] # <<>>
                     THEN Append(grouped, TupleChunk(prev_source[1], <<>>))
                     ELSE grouped]
    ELSE LET state == Head(labeled)[1]
             n == RunLen(labeled, state)
             block == [i \in 1..n |-> labeled[i][2]]
             rest == SubSeq(labeled, n + 1, Len(labeled))
         IN  IF state = TEXT THEN
                 GroupRuns(rest, None,
                     (IF ~IsNone(prev_source)
                      THEN Append(grouped, TupleChunk(prev_source[1], <<>>))
                      ELSE grouped) \o <<TextChunk(block)>>)
             ELSE IF state = WANT THEN
                 IF IsNone(prev_source) THEN [ex |-> "AssertionError", grouped |-> grouped]
                 ELSE GroupRuns(rest, None,
                          Append(grouped, TupleChunk(prev_source[1], block)))
             ELSE GroupRuns(rest, Some(block), grouped)

group_labeled_lines(labeled) == GroupRuns(labeled, None, <<>>)

\* ---------------------------------------------------------------- packager

\* sorted(S) for a finite set of integers
RECURSIVE Sorted(_)
Sorted(S) ==
    IF S = {} THEN <<>>
    ELSE LET m == CHOOSE x \in S : \A y \in S : x <= y IN <<m>> \o Sorted(S \ {m})

Range(s) == {s[i] : i \in 1..Len(s)}

\* a mutation of Walk16806: the candidate is taken as it is
Walk16806NoShift(lines, a, b) == a

\* the while loop of _workaround_16806; a result below -len(lines) stands for
\* a loop that never ends (every slice from there on is lines[0:b])
RECURSIVE Walk16806(_, _, _)
Walk16806(lines, a, b) ==
    IF is_balanced_statement(PySlice(lines, a, b)) THEN a
    ELSE IF a < 0 - Len(lines) THEN a
    ELSE Walk16806(lines, a - 1, b)

\* the for loop of _workaround_16806 over ps1_linenos[::-1], from index k down
RECURSIVE Fix16806(_, _, _, _, _)
Fix16806(ps1_linenos, k, lines, b, new_ps1_lines) ==
    IF k = 0 THEN new_ps1_lines
    ELSE LET a == Walk16806(lines, ps1_linenos[k], b) IN
         Fix16806(ps1_linenos, k - 1, lines, a, new_ps1_lines \cup {a})

workaround_16806(ps1_linenos, exec_source_lines) ==
    Fix16806(ps1_linenos, Len(ps1_linenos), exec_source_lines,
             Len(exec_source_lines), {})

\* the hack that makes comments appear like executable statements
CommentHack(p) == IF p # <<>> /\ p[1] \in {"#", "D"} THEN <<"a">> ELSE p

\* a mutation of EvalFinal: the first statement is inspected instead of the last
EvalFinalFirstNode(statement_nodes) == statement_nodes[1].kind = "Expr"

\* lines 509-516: is the last statement evaluatable?
EvalFinal(statement_nodes) == statement_nodes[Len(statement_nodes)].kind = "Expr"

\* a mutation of locate_fixed: the lines without '>>> ' are not removed
locate_fixed_keep_ps2(source_lines, fixed, eval_final) ==
    IF \E a \in fixed : a < 0 - Len(source_lines)
    THEN [ex |-> "hang", ps1_linenos |-> <<>>, eval_final |-> FALSE]
    ELSE [ex |-> "", ps1_linenos |-> Sorted(fixed), eval_final |-> eval_final]

\* lines 503-518, fixed being the set that _workaround_16806 returned; a line
\* number the workaround walked below the first line stands for its endless loop
locate_fixed(source_lines, fixed, eval_final) ==
    IF \E a \in fixed : a < 0 - Len(source_lines)
    THEN [ex |-> "hang", ps1_linenos |-> <<>>, eval_final |-> FALSE]
    ELSE [ex |-> "",
          ps1_linenos |->
              Sorted(fixed \ {x \in 0..(Len(source_lines) - 1) :
                                 Take(source_lines[x + 1], 4) # PS1}),
          eval_final |-> eval_final]

\* lines 496-516, pt being what ast.parse made of the source block
locate_parsed(source_lines, exec_source_lines, pt, bug) ==
    IF ~pt.ok THEN [ex |-> "SyntaxError", ps1_linenos |-> <<>>, eval_final |-> FALSE]
    ELSE IF pt.body = <<>>
         THEN [ex |-> "IndexError", ps1_linenos |-> <<>>, eval_final |-> FALSE]
    ELSE locate_fixed(source_lines,
                      workaround_16806([i \in 1..Len(pt.body) |->
                                           NodeLineno0(pt.body[i], bug)],
                                       exec_source_lines),
                      EvalFinal(pt.body))

\* lines 495-516, exec_source_lines being the lines after the hack of 492-493
locate_hacked(source_lines, exec_source_lines, bug) ==
    locate_parsed(source_lines, exec_source_lines, ast_parse(exec_source_lines), bug)

\* _locate_ps1_linenos(source_lines): the exception it raises, or the lines
\* that begin a statement and whether the last statement is an expression
locate_ps1_linenos(source_lines, bug) ==
    locate_hacked(source_lines,
                  [i \in 1..Len(source_lines) |-> CommentHack(Drop(source_lines[i], 4))],
                  bug)

\* line_to_directives.get(s1, None)
DictGet(d, k) == IF k \in DOMAIN d THEN Some(d[k]) ELSE None

\* the closure of slice_example: the variables of _package_chunk it reads
\* (want_lines among them, shadowed by its parameter of the same name)
SliceEnv(exec_source_lines, source_lines, want_lines, line_to_directives, base) ==
    [exec_source_lines |-> exec_source_lines, source_lines |-> source_lines,
     want_lines |-> want_lines, line_to_directives |-> line_to_directives,
     lineno |-> base]

\* a mutation of slice_example: the parameter want_lines is forgotten and the
\* want_lines of the enclosing _package_chunk is used
slice_example_closure_want(env, s1, s2, want) ==
    [kind |-> "part",
     exec_lines |-> PySlice(env.exec_source_lines, s1, s2),
     want_lines |-> Some(env.want_lines),
     orig_lines |-> PySlice(env.source_lines, s1, s2),
     line_offset |-> env.lineno + s1,
     directives |-> DictGet(env.line_to_directives, s1),
     use_eval |-> FALSE]

\* a mutation of slice_example: line_offset forgets the start of the slice
slice_example_base_offset(env, s1, s2, want) ==
    [kind |-> "part",
     exec_lines |-> PySlice(env.exec_source_lines, s1, s2),
     want_lines |-> want,
     orig_lines |-> PySlice(env.source_lines, s1, s2),
     line_offset |-> env.lineno,
     directives |-> DictGet(env.line_to_directives, s1),
     use_eval |-> FALSE]

\* a mutation of slice_example: orig_lines is cut from the lines without prompt
slice_example_orig_exec(env, s1, s2, want) ==
    [kind |-> "part",
     exec_lines |-> PySlice(env.exec_source_lines, s1, s2),
     want_lines |-> want,
     orig_lines |-> PySlice(env.exec_source_lines, s1, s2),
     line_offset |-> env.lineno + s1,
     directives |-> DictGet(env.line_to_directives, s1),
     use_eval |-> FALSE]

\* slice_example(s1, s2, want_lines); want is None or Some(lines)
slice_example(env, s1, s2, want) ==
    [kind |-> "part",
     exec_lines |-> PySlice(env.exec_source_lines, s1, s2),
     want_lines |-> want,
     orig_lines |-> PySlice(env.source_lines, s1, s2),
     line_offset |-> env.lineno + s1,
     directives |-> DictGet(env.line_to_directives, s1),
     use_eval |-> FALSE]

\* lines 378-383: block directives on their own PS1 line
\* a mutation of LineBreaks: the line after the directive's line breaks too
RECURSIVE LineBreaksBothEnds(_, _, _, _)
LineBreaksBothEnds(ps1_linenos, k, exec_source_lines, acc) ==
    IF k > Len(ps1_linenos) THEN acc
    ELSE LET s1 == ps1_linenos[k]
             directives == extract(<<PyIndex(exec_source_lines, s1)>>)
         IN  LineBreaksBothEnds(ps1_linenos, k + 1, exec_source_lines,
                 IF directives # <<>>
                 THEN [break_linenos |-> acc.break_linenos \o <<s1, s1 + 1>>,
                       line_to_directives |-> (s1 :> directives) @@ acc.line_to_directives]
                 ELSE acc)

RECURSIVE LineBreaks(_, _, _, _)
LineBreaks(ps1_linenos, k, exec_source_lines, acc) ==
    IF k > Len(ps1_linenos) THEN acc
    ELSE LET s1 == ps1_linenos[k]
             directives == extract(<<PyIndex(exec_source_lines, s1)>>)
         IN  LineBreaks(ps1_linenos, k + 1, exec_source_lines,
                 IF directives # <<>>
                 THEN [break_linenos |-> Append(acc.break_linenos, s1),
                       line_to_directives |-> (s1 :> directives) @@ acc.line_to_directives]
                 ELSE acc)

\* lines 385-393: directives anywhere in the block of a statement
RECURSIVE BlockBreaks(_, _, _, _)
BlockBreaks(ps1_linenos, k, exec_source_lines, acc) ==
    IF k > Len(ps1_linenos) THEN acc
    ELSE LET s1 == ps1_linenos[k]
             last == k = Len(ps1_linenos)
             s2 == IF last THEN Len(exec_source_lines) ELSE ps1_linenos[k + 1]
             directives == extract(PySlice(exec_source_lines, s1, s2))
         IN  BlockBreaks(ps1_linenos, k + 1, exec_source_lines,
                 IF s1 \notin Range(acc.break_linenos) /\ directives # <<>>
                 THEN [break_linenos |->
                           acc.break_linenos \o <<s1>> \o (IF last THEN <<>> ELSE <<s2>>),
                       line_to_directives |-> (s1 :> directives) @@ acc.line_to_directives]
                 ELSE acc)

\* the (s1, s2) pairs of zip(xs, xs[1:])
Pairs(xs) == [i \in 1..(Len(xs) - 1) |-> <<xs[i], xs[i + 1]>>]

\* a mutation of AfterPairs: `s1 = s2` after the loop is forgotten
AfterPairsStale(xs) == 0

\* the value of s2 after `for s1, s2 in zip(xs, xs[1:])`, s2 being 0 before
AfterPairs(xs) == IF Len(xs) >= 2 THEN xs[Len(xs)] ELSE 0

\* a mutation of PartRanges: the final expression is split off without the
\* test `s2 != s1`
PartRangesNoGuard(repl, ps1_linenos, break_linenos, want_lines, eval_final) ==
    IF repl THEN [early |-> Pairs(ps1_linenos), s1 |-> AfterPairs(ps1_linenos)]
    ELSE LET sorted_breaks == Sorted({0} \cup Range(break_linenos))
             pairs == IF break_linenos # <<>> THEN Pairs(sorted_breaks) ELSE <<>>
             s1 == IF break_linenos # <<>> THEN AfterPairs(sorted_breaks) ELSE 0
             s2 == ps1_linenos[Len(ps1_linenos)]
         IN  IF want_lines # <<>> /\ eval_final
             THEN [early |-> Append(pairs, <<s1, s2>>), s1 |-> s2]
             ELSE [early |-> pairs, s1 |-> s1]

\* lines 405-430: the ranges of the Parts that carry no want, and the start
\* of the last Part
PartRanges(repl, ps1_linenos, break_linenos, want_lines, eval_final) ==
    IF repl THEN [early |-> Pairs(ps1_linenos), s1 |-> AfterPairs(ps1_linenos)]
    ELSE LET sorted_breaks == Sorted({0} \cup Range(break_linenos))
             pairs == IF break_linenos # <<>> THEN Pairs(sorted_breaks) ELSE <<>>
             s1 == IF break_linenos # <<>> THEN AfterPairs(sorted_breaks) ELSE 0
             s2 == ps1_linenos[Len(ps1_linenos)]
         IN  IF want_lines # <<>> /\ eval_final /\ s2 # s1
             THEN [early |-> Append(pairs, <<s1, s2>>), s1 |-> s2]
             ELSE [early |-> pairs, s1 |-> s1]

\* a mutation of UseEval: the want is not looked at
UseEvalWithoutWant(want_lines, eval_final) == eval_final

\* example.use_eval = bool(want_lines) and eval_final
UseEval(want_lines, eval_final) == want_lines # <<>> /\ eval_final

\* [p[line_indent:] for p in lines]
Unindent(lines, k) == [i \in 1..Len(lines) |-> Drop(lines[i], k)]

\* lines 405-435: the Parts of the ranges, the last one with the want
yield_parts(env, rng, want_lines, eval_final) ==
    [ex |-> "",
     parts |-> [i \in 1..Len(rng.early) |->
                   slice_example(env, rng.early[i][1], rng.early[i][2], None)]
               \o <<[slice_example(env, rng.s1, Len(env.exec_source_lines),
                                   Some(want_lines))
                       EXCEPT !.use_eval = UseEval(want_lines, eval_final)]>>]

\* lines 395-435, brk being the breaks and directives found by lines 376-393
package_broken(source_lines, exec_source_lines, want_lines, loc, brk, base, repl) ==
    yield_parts(SliceEnv(exec_source_lines, source_lines, want_lines,
                         brk.line_to_directives, base),
                PartRanges(repl, loc.ps1_linenos, brk.break_linenos, want_lines,
                           loc.eval_final),
                want_lines, loc.eval_final)

\* lines 372-435, loc being what _locate_ps1_linenos returned or raised
package_located(source_lines, exec_source_lines, want_lines, loc, base, repl) ==
    IF loc.ex # "" THEN [ex |-> loc.ex, parts |-> <<>>]
    ELSE IF loc.ps1_linenos = <<>> /\ ~repl /\ want_lines # <<>> /\ loc.eval_final
         THEN [ex |-> "IndexError", parts |-> <<>>]
    ELSE package_broken(source_lines, exec_source_lines, want_lines, loc,
             BlockBreaks(loc.ps1_linenos, 1, exec_source_lines,
                 LineBreaks(loc.ps1_linenos, 1, exec_source_lines,
                     [break_linenos |-> <<>>, line_to_directives |-> <<>>])),
             base, repl)

\* lines 369-435, the lines being without the indentation of the block
package_stripped(source_lines, want_lines, base, repl, bug) ==
    package_located(source_lines, Unindent(source_lines, 4), want_lines,
                    locate_ps1_linenos(source_lines, bug), base, repl)

\* _package_chunk(raw_source_lines, raw_want_lines, lineno): the Parts it
\* yields and the exception it raises
package_chunk(raw_source_lines, raw_want_lines, base, repl, bug) ==
    package_stripped(Unindent(raw_source_lines, IndentOf(raw_source_lines[1])),
                     Unindent(raw_want_lines, IndentOf(raw_source_lines[1])),
                     base, repl, bug)

\* DoctestPart.directives: extracted from the source unless given at construction
PartDirectives(part) ==
    IF IsNone(part.directives) THEN extract(part.exec_lines) ELSE part.directives[1]

IsPart(x) == x.kind = "part"

\* DoctestPart.n_want_lines and n_lines
WantOf(part) == IF IsNone(part.want_lines) THEN <<>> ELSE part.want_lines[1]
NLines(part) == Len(part.exec_lines) + Len(WantOf(part))

\* ------------------------------------------------------ check_got_vs_want

\* DoctestPart.want: the want lines joined, or None
PartWant(part) == IF WantOf(part) # <<>> THEN Some(join(WantOf(part))) ELSE None

\* the sentinel of the caller for "nothing was evaluated", and values
not_evaled == [kind |-> "not_evaled"]
PyStr(chars) == [kind |-> "str", val |-> chars]

\* repr(value) of a string without quotes or escapes in it
repr(value) == <<"'">> \o value.val \o <<"'">>

\* the stdout texts and evaluated values of the modelled calls
GotStdouts == {<<>>, <<"o">>}
GotEvals == {not_evaled, PyStr(<<"o">>)}

\* checker.check_output and checker.normalize are not part of parser.py: the
\* first is any fixed set of accepted texts, the second any function of its
\* two arguments
Oracles == {{}, {<<"o">>}, {repr(PyStr(<<"o">>))}, {<<>>, <<"o">>, repr(PyStr(<<"o">>))}}
check_output(got, want, accepted) == got \in accepted
normalize(got, want) == <<[normalized |-> got], [normalized |-> want]>>

\* a mutation of ChooseGot: with both present the fallback on the evaluated
\* value is left out
ChooseGotStdoutOnly(got_stdout, got_eval, notevaled, want, accepted) ==
    IF got_eval = notevaled \/ got_stdout # <<>>
    THEN [got |-> got_stdout, flag |-> check_output(got_stdout, want, accepted)]
    ELSE [got |-> repr(got_eval), flag |-> check_output(repr(got_eval), want, accepted)]

\* lines 149-169: the text that is compared and whether it matched
ChooseGot(got_stdout, got_eval, notevaled, want, accepted) ==
    IF got_eval = notevaled
    THEN [got |-> got_stdout, flag |-> check_output(got_stdout, want, accepted)]
    ELSE IF got_stdout = <<>>
    THEN [got |-> repr(got_eval), flag |-> check_output(repr(got_eval), want, accepted)]
    ELSE IF check_output(got_stdout, want, accepted)
    THEN [got |-> got_stdout, flag |-> TRUE]
    ELSE IF check_output(repr(got_eval), want, accepted)
    THEN [got |-> repr(got_eval), flag |-> TRUE]
    ELSE [got |-> got_stdout, flag |-> FALSE]

\* lines 170-177: the GotWantException that is raised, if any
RaiseUnless(chosen, want) ==
    IF chosen.flag THEN [raised |-> FALSE, got |-> None, want |-> None]
    ELSE [raised |-> TRUE, got |-> Some(normalize(chosen.got, want)[1]),
          want |-> Some(normalize(chosen.got, want)[2])]

check_got_vs_want(part, got_stdout, got_eval, notevaled, accepted) ==
    RaiseUnless(ChooseGot(got_stdout, got_eval, notevaled, PartWant(part), accepted),
                PartWant(part))

\* ------------------------------------------------------------- format_src

\* the arguments startline of the modelled calls
StartLines == {1, 9}

DigitChars == <<"0", "1", "2", "3", "4", "5", "6", "7", "8", "9">>

\* str(n) for n >= 0
RECURSIVE Decimal(_)
Decimal(n) ==
    IF n < 10 THEN <<DigitChars[n + 1]>>
    ELSE Append(Decimal(n \div 10), DigitChars[(n % 10) + 1])

Spaces(k) == [i \in 1..k |-> " "]

\* '{:Nd}'.format(n) for n >= 0: right-justified in at least N columns
FormatInt(n, width) == Spaces(width - Len(Decimal(n))) \o Decimal(n)

\* int(math.ceil(math.log(n, 10))) for n >= 1: the least d with 10^d >= n
RECURSIVE CeilLog10(_, _, _)
CeilLog10(n, d, p) == IF p >= n THEN d ELSE CeilLog10(n, d + 1, p * 10)

\* lines 203-206: n_digits when it is not supplied
NDigits(part, startline) == CeilLog10(Max(1, startline + NLines(part)), 0, 1)

\* utils.indent(text, '>>> '): the prefix before the text and after every newline
RECURSIVE IndentText(_)
IndentText(text) ==
    IF text = <<>> THEN <<>>
    ELSE IF Head(text) = "\n" THEN <<"\n">> \o PS1 \o IndentText(Tail(text))
    ELSE <<Head(text)>> \o IndentText(Tail(text))

\* DoctestPart.source
SourceText(part) == join(part.exec_lines)

\* `self.want if self.want else ''`
WantText(part) == IF WantOf(part) # <<>> THEN join(WantOf(part)) ELSE <<>>

\* lines 208-219: the numbered lines
NumberedLines(src_lines, want_lines, count, n_digits, want) ==
    [k \in 1..Len(src_lines) |->
        FormatInt(count + k - 1, n_digits) \o <<" ">> \o src_lines[k]]
    \o (IF want THEN [k \in 1..Len(want_lines) |->
                         Spaces(n_digits) \o <<" ">> \o want_lines[k]]
        ELSE <<>>)

\* lines 198-229 with colored false, src_text and want_text being given
FormatTexts(src_text, want_text, count, n_digits, linenos, want) ==
    IF linenos
    THEN join(NumberedLines(splitlines(src_text), splitlines(want_text),
                            count, n_digits, want))
    ELSE IF want_text # <<>> /\ want THEN src_text \o <<"\n">> \o want_text
    ELSE src_text

\* DoctestPart.format_src(linenos, want, startline) with n_digits None and
\* colored False
format_src(part, linenos, want, startline) ==
    FormatTexts(PS1 \o IndentText(SourceText(part)), WantText(part),
                startline + part.line_offset, NDigits(part, startline), linenos, want)

\* ------------------------------------------------------------------ parse

\* parse, lines 310-314, and the splitlines() of the labeler (line 622): the
\* lines of `string`.  The docstring is given as its lines; when a common
\* indentation is stripped the lines are joined again, which loses a final
\* empty line.
Normalize(doc) ==
    LET expanded == expandtabs(doc)
        min_indent == min_indentation(expanded)
    IN  IF min_indent > 0
        THEN splitlines(join([i \in 1..Len(expanded) |-> Drop(expanded[i], min_indent)]))
        ELSE expanded

\* '\n'.join(chunk), yielded by _package_groups for a run of text
TextPart(chunk) == [kind |-> "text", text |-> join(chunk)]

\* the docstrings of at most MaxLines lines over a vocabulary of lines
Docs(V) == UNION {[1..n -> V] : n \in 0..MaxLines}

\* the state before parse is called on one of the docstrings D
InitDocs(D, Bugs) ==
    /\ simulate_repl \in BOOLEAN
    /\ bug16806 \in Bugs
    /\ docstring \in D
    /\ string = docstring
    /\ pc = "start"
    /\ line_idx = 1
    /\ prev_state = TEXT
    /\ state_indent = 0
    /\ labeled_lines = <<>>
    /\ grouped_lines = <<>>
    /\ chunk_idx = 1
    /\ lineno = 0
    /\ yielded = <<>>
    /\ all_parts = <<>>
    /\ orig_ex = ""
    /\ formatted = None
    /\ checked = None

InitOver(V, Bugs) == InitDocs(Docs(V), Bugs)

\* parse up to the call of _label_docsrc_lines
Parse ==
    /\ pc = "start"
    /\ string' = Normalize(docstring)
    /\ pc' = "label"
    /\ UNCHANGED <<simulate_repl, docstring, line_idx, prev_state, state_indent,
                   labeled_lines, grouped_lines, chunk_idx, lineno, yielded,
                   all_parts, formatted, checked, bug16806, orig_ex>>

\* one iteration of the for loop of _label_docsrc_lines, with the lines that
\* _complete_source takes from the shared iterator
LabelLine ==
    /\ pc = "label"
    /\ line_idx <= Len(string)
    /\ \E curr_state \in {CurrState(prev_state, string[line_idx], state_indent)} :
       \E indent \in {NextIndent(prev_state, curr_state, string[line_idx], state_indent)} :
           /\ state_indent' = indent
           /\ prev_state' = curr_state
           /\ IF curr_state = DSRC
              THEN \E src \in {complete_source(string, line_idx, indent)} :
                   /\ labeled_lines' = labeled_lines \o Labeled(DSRC, src.yield)
                   /\ line_idx' = line_idx + Len(src.yield)
                   /\ pc' = IF src.ex = "" THEN "label" ELSE "error"
                   /\ orig_ex' = src.ex
              ELSE /\ labeled_lines' = Append(labeled_lines, <<curr_state, string[line_idx]>>)
                   /\ line_idx' = line_idx + 1
                   /\ UNCHANGED <<pc, orig_ex>>
    /\ UNCHANGED <<simulate_repl, docstring, string, grouped_lines, chunk_idx,
                   lineno, yielded, all_parts, formatted, checked, bug16806>>

\* the labeler returns; _group_labeled_lines runs
Group ==
    /\ pc = "label"
    /\ line_idx > Len(string)
    /\ \E g \in {group_labeled_lines(labeled_lines)} :
           /\ grouped_lines' = g.grouped
           /\ orig_ex' = g.ex
           /\ pc' = IF g.ex = "" THEN "package" ELSE "error"
    /\ UNCHANGED <<simulate_repl, docstring, string, line_idx, prev_state,
                   state_indent, labeled_lines, chunk_idx, lineno, yielded,
                   all_parts, formatted, checked, bug16806>>

\* one iteration of the for loop of _package_groups
PackageChunk ==
    /\ pc = "package"
    /\ chunk_idx <= Len(grouped_lines)
    /\ \E chunk \in {grouped_lines[chunk_idx]} :
       IF chunk.kind = "tuple"
       THEN \E r \in {package_chunk(chunk.slines, chunk.wlines, lineno,
                                    simulate_repl, bug16806)} :
                /\ yielded' = yielded \o r.parts
                /\ orig_ex' = IF r.ex = "hang" THEN "" ELSE r.ex
                /\ pc' = IF r.ex = "" THEN "package"
                         ELSE IF r.ex = "hang" THEN "hang" ELSE "error"
                /\ lineno' = IF r.ex = "" THEN lineno + Len(chunk.slines) + Len(chunk.wlines)
                             ELSE lineno
                /\ chunk_idx' = IF r.ex = "" THEN chunk_idx + 1 ELSE chunk_idx
       ELSE /\ yielded' = Append(yielded, TextPart(chunk.lines))
            /\ lineno' = lineno + Len(chunk.lines)
            /\ chunk_idx' = chunk_idx + 1
            /\ UNCHANGED <<pc, orig_ex>>
    /\ UNCHANGED <<simulate_repl, docstring, string, line_idx, prev_state,
                   state_indent, labeled_lines, grouped_lines, all_parts, formatted, checked, bug16806>>

\* list(...) is complete and parse returns it
Return ==
    /\ pc = "package"
    /\ chunk_idx > Len(grouped_lines)
    /\ all_parts' = yielded
    /\ pc' = "done"
    /\ UNCHANGED <<simulate_repl, docstring, string, line_idx, prev_state,
                   state_indent, labeled_lines, grouped_lines, chunk_idx, lineno,
                   yielded, formatted, checked, bug16806, orig_ex>>

\* a caller formats one of the returned Parts
FormatSrc ==
    /\ pc = "done"
    /\ checked = None
    /\ \E k \in 1..Len(all_parts), startline \in StartLines, linenos, want \in BOOLEAN :
          /\ IsPart(all_parts[k])
          /\ formatted' = Some([part |-> k, linenos |-> linenos, want |-> want,
                                startline |-> startline,
                                text |-> format_src(all_parts[k], linenos, want, startline)])
    /\ UNCHANGED <<simulate_repl, docstring, string, pc, line_idx, prev_state,
                   state_indent, labeled_lines, grouped_lines, chunk_idx, lineno,
                   yielded, all_parts, bug16806, orig_ex, checked>>

\* a caller compares what running one of the returned Parts gave with its
\* want, before it formats any Part
CheckGotVsWant ==
    /\ pc = "done"
    /\ formatted = None
    /\ checked = None
    /\ \E k \in 1..Len(all_parts), got_stdout \in GotStdouts, got_eval \in GotEvals,
          accepted \in Oracles :
          /\ IsPart(all_parts[k])
          /\ checked' = Some([part |-> k, got_stdout |-> got_stdout,
                               got_eval |-> got_eval, accepted |-> accepted,
                               result |-> check_got_vs_want(all_parts[k], got_stdout,
                                                            got_eval, not_evaled,
                                                            accepted)])
    /\ UNCHANGED <<simulate_repl, docstring, string, pc, line_idx, prev_state,
                   state_indent, labeled_lines, grouped_lines, chunk_idx, lineno,
                   yielded, all_parts, bug16806, orig_ex, formatted>>

Next == Parse \/ LabelLine \/ Group \/ PackageChunk \/ Return \/ FormatSrc \/ CheckGotVsWant

\* characters and lines of the vocabularies
Blank == <<>>
Line(indent, prompt, body) == [i \in 1..indent |-> " "] \o prompt \o body

CoreLines ==
    { Blank,
      <<"t">>,
      Line(0, PS1, <<"a">>),
      Line(0, PS1, <<"e">>),
      Line(0, PS1, <<"(">>),
      Line(0, PS1, <<")">>),
      Line(0, PS1, <<"c">>),
      Line(1, PS1, <<"e">>),
      <<"\t">> \o Line(0, PS1, <<"e">>) }

Init == InitOver(CoreLines, {TRUE})

Spec == Init /\ [][Next]_vars

\* docstrings with comments and directives
DirectiveLines ==
    { Blank,
      <<"t">>,
      Line(0, PS1, <<"a">>),
      Line(0, PS1, <<"e">>),
      Line(0, PS1, <<"#">>),
      Line(0, PS1, <<"D">>),
      Line(0, PS1, <<"(", "D">>),
      Line(0, PS1, <<")", "D">>) }

InitDirective == InitOver(DirectiveLines, {TRUE})

SpecDirective == InitDirective /\ [][Next]_vars

\* docstrings with continuation prompts, prompts without body, lines without
\* prompt and shifted prompts
PromptLines ==
    { Blank,
      <<"t">>,
      Line(0, PS1, <<"a">>),
      Line(0, PS1, <<"e">>),
      Line(0, PS1, <<>>),
      Line(0, PS2, <<"e">>),
      Line(0, PS1, <<" ", "#">>),
      Line(0, PS1, <<"(">>),
      Line(4, <<>>, <<")">>),
      Line(1, PS1, <<")">>) }

InitPrompt == InitOver(PromptLines, {TRUE})

SpecPrompt == InitPrompt /\ [][Next]_vars

\* docstrings of statements, directives, comments that follow their prompt
\* after a space, and continuation lines
ReplLines ==
    { <<"t">>,
      Line(0, PS1, <<"a">>),
      Line(0, PS1, <<"e">>),
      Line(0, PS1, <<"a", "D">>),
      Line(0, PS1, <<" ", "#">>),
      Line(0, PS2, <<"e">>) }

InitRepl == InitOver(ReplLines, {TRUE})

SpecRepl == InitRepl /\ [][Next]_vars

\* longer docstrings of statements that span two lines, with a directive on
\* the second line
BlockLines ==
    { <<"t">>,
      Line(0, PS1, <<"a">>),
      Line(0, PS1, <<"(">>),
      Line(0, PS1, <<")", "D">>) }

InitBlock ==
    InitDocs(UNION {[1..n -> BlockLines] : n \in 0..MaxBlockLines}, {TRUE})

SpecBlock == InitBlock /\ [][Next]_vars

\* longer docstrings of statements that are multi-line strings or span
\* parentheses, parsed by a Python with and without issue 16806
StringLines ==
    { Line(0, PS1, <<"q">>),
      Line(0, PS1, <<"e">>),
      Line(0, PS1, <<"(">>),
      Line(0, PS1, <<")">>) }

InitString ==
    InitDocs(UNION {[1..n -> StringLines] : n \in 0..MaxStringLines}, BOOLEAN)

SpecString == InitString /\ [][Next]_vars

\* ------------------------------------------------------- reading a result

\* the lines of a text run: str.split('\n')
RECURSIVE SplitNL(_, _)
SplitNL(text, cur) ==
    IF text = <<>> THEN <<cur>>
    ELSE IF Head(text) = "\n" THEN <<cur>> \o SplitNL(Tail(text), <<>>)
    ELSE SplitNL(Tail(text), Append(cur, Head(text)))

TextLines(x) == SplitNL(x.text, <<>>)

ItemLines(x) == IF IsPart(x) THEN x.orig_lines \o WantOf(x) ELSE TextLines(x)

RECURSIVE Reassemble(_)
Reassemble(items) ==
    IF items = <<>> THEN <<>> ELSE ItemLines(Head(items)) \o Reassemble(Tail(items))

\* the sequence is returned, or is being built by _package_groups
Emitted == IF pc = "done" THEN all_parts ELSE yielded

ChunkSize(chunk) ==
    IF chunk.kind = "tuple" THEN Len(chunk.slines) + Len(chunk.wlines)
    ELSE Len(chunk.lines)

\* the number of input lines before chunk g
RECURSIVE ChunkBase(_)
ChunkBase(g) == IF g = 1 THEN 0 ELSE ChunkBase(g - 1) + ChunkSize(grouped_lines[g - 1])

\* the groups that _package_groups has packaged
PackagedGroups ==
    {g \in 1..Len(grouped_lines) : g < chunk_idx /\ grouped_lines[g].kind = "tuple"}

\* the Parts emitted for group g, in emission order
PartsOfGroup(g) ==
    SelectSeq(Emitted, LAMBDA x :
        /\ IsPart(x)
        /\ x.line_offset >= ChunkBase(g)
        /\ x.line_offset < ChunkBase(g) + Len(grouped_lines[g].slines))

\* zero-based position in the input of the first line of item k: a Part tells
\* it, a text run follows the item before it
ItemStart(items, k) ==
    IF IsPart(items[k]) THEN items[k].line_offset
    ELSE IF k = 1 THEN 0
    ELSE IF IsPart(items[k - 1]) THEN items[k - 1].line_offset + NLines(items[k - 1])
    ELSE -1

\* ----------------------------------------------------------------- claims

C2_WantExclusivity ==
    \A g \in PackagedGroups :
        LET parts == PartsOfGroup(g)
            chunk == grouped_lines[g]
        IN  /\ Len(parts) >= 1
            /\ \A i \in 1..(Len(parts) - 1) : IsNone(parts[i].want_lines)
            /\ parts[Len(parts)].want_lines =
                   Some(Unindent(chunk.wlines, IndentOf(chunk.slines[1])))

\* C2 witness: a group with a want was emitted as several Parts
C2_Witness ==
    \E g \in PackagedGroups :
        /\ Len(PartsOfGroup(g)) >= 2
        /\ grouped_lines[g].wlines # <<>>

\* the final top-level statement of the lines is a bare expression
LastIsExpr(lines) ==
    LET pt == ast_parse(lines) IN
    pt.ok /\ pt.body # <<>> /\ pt.body[Len(pt.body)].kind = "Expr"

\* C3 (as stated): use_eval is true if and only if the Part carries a
\* non-empty want_lines and the final top-level statement of its exec_lines is
\* a bare expression; it is never true on a Part without a want.
C3_UseEvalIff ==
    /\ \A k \in 1..Len(Emitted) :
          IsPart(Emitted[k]) =>
              (Emitted[k].use_eval <=>
                  (WantOf(Emitted[k]) # <<>> /\ LastIsExpr(Emitted[k].exec_lines)))
    /\ \A g \in PackagedGroups :
          \A i \in 1..(Len(PartsOfGroup(g)) - 1) : ~PartsOfGroup(g)[i].use_eval

\* C4: line_offset is non-decreasing in emission order, and each Part's
\* line_offset is the number of input lines before its first source line:
\* the lines of the chunks before its group plus the source lines of its own
\* group that precede it.
C4_LineOffsets ==
    /\ \A i, j \in 1..Len(Emitted) :
          (i < j /\ IsPart(Emitted[i]) /\ IsPart(Emitted[j]))
              => Emitted[i].line_offset <= Emitted[j].line_offset
    /\ \A k \in 1..Len(Emitted) :
          IsPart(Emitted[k]) =>
              \E g \in PackagedGroups :
                  LET x == Emitted[k]
                      slines == grouped_lines[g].slines
                      before == x.line_offset - ChunkBase(g)
                  IN  /\ before >= 0
                      /\ before + Len(x.orig_lines) <= Len(slines)
                      /\ x.orig_lines =
                            Unindent(SubSeq(slines, before + 1, before + Len(x.orig_lines)),
                                     IndentOf(slines[1]))
                      /\ x.orig_lines =
                            Unindent(SubSeq(string, x.line_offset + 1,
                                            x.line_offset + Len(x.orig_lines)),
                                     IndentOf(slines[1]))

\* C4 witness: a text run, then two Parts of one group, the second of which
\* starts after source lines of its own group
C4_Witness ==
    /\ pc = "done"
    /\ \E k \in 1..Len(all_parts) :
          /\ k >= 3
          /\ ~IsPart(all_parts[k - 2])
          /\ IsPart(all_parts[k - 1])
          /\ IsPart(all_parts[k])
          /\ all_parts[k].line_offset = all_parts[k - 1].line_offset + 1

\* line i of the Part begins a statement: the lines before it are complete
BeginsStatement(part, i) == i = 1 \/ is_balanced_statement(Take(part.exec_lines, i - 1))

HasPrompt(line) == startswith(line, PS1) \/ startswith(line, PS2)

\* C5 (as stated): every line in every Part's orig_lines begins with the four
\* characters '>>> ' or '... ', the lines pulled to complete a multi-line
\* statement included.
C5_PrefixInvariant ==
    \A k \in 1..Len(Emitted) :
        IsPart(Emitted[k]) =>
            \A i \in 1..Len(Emitted[k].orig_lines) : HasPrompt(Emitted[k].orig_lines[i])

\* C5 (amended): the first line of every Part begins with '>>> ' and every
\* other line that begins a statement begins with '>>> ' or '... '; a line
\* pulled to complete a multi-line statement has, in its first four
\* characters and blanks apart, '>>>', '...' or nothing.
C5_PrefixOfStatementLines ==
    \A k \in 1..Len(Emitted) :
        IsPart(Emitted[k]) =>
            LET part == Emitted[k] IN
            /\ part.orig_lines # <<>>
            /\ startswith(part.orig_lines[1], PS1)
            /\ \A i \in 1..Len(part.orig_lines) :
                  IF BeginsStatement(part, i) THEN HasPrompt(part.orig_lines[i])
                  ELSE strip(Take(part.orig_lines[i], 4))
                           \in {<<">", ">", ">">>, <<".", ".", ".">>, <<>>}

\* C5 witness: a Part holds a pulled line without prompt
C5_Witness ==
    /\ pc = "done"
    /\ \E k \in 1..Len(all_parts) :
          /\ IsPart(all_parts[k])
          /\ \E i \in 1..Len(all_parts[k].orig_lines) :
                /\ ~BeginsStatement(all_parts[k], i)
                /\ ~HasPrompt(all_parts[k].orig_lines[i])

\* C6 (as stated): a line that begins a top-level statement and carries a
\* directive is the first line of a Part, and the directives of every Part are
\* exactly those the extractor finds in the Part's own exec_lines.
C6_DirectiveSplit ==
    \A k \in 1..Len(Emitted) :
        IsPart(Emitted[k]) =>
            LET part == Emitted[k] IN
            /\ \A i \in 2..Len(part.exec_lines) :
                  BeginsStatement(part, i) => extract(<<part.exec_lines[i]>>) = <<>>
            /\ PartDirectives(part) = extract(part.exec_lines)

ScenarioF == << <<">", ">", ">", " ", "a">>, <<">", ">", ">", " ", "D">>,
                <<">", ">", ">", " ", "a">> >>

PlainPart(part, exec_lines) ==
    /\ IsPart(part)
    /\ part.exec_lines = exec_lines
    /\ PartDirectives(part) = <<>>
    /\ WantOf(part) = <<>>

\* C7 (as stated): three single-line statements of which only the middle one
\* is a comment with a directive, and no want, give exactly three Parts, one
\* per line, the directive on the middle Part only.
C7_DirectiveMidBlock ==
    (pc = "done" /\ string = ScenarioF) =>
        /\ Len(all_parts) = 3
        /\ PlainPart(all_parts[1], << <<"a">> >>)
        /\ IsPart(all_parts[2])
        /\ all_parts[2].exec_lines = << <<"D">> >>
        /\ PartDirectives(all_parts[2]) = <<"SKIP">>
        /\ PlainPart(all_parts[3], << <<"a">> >>)

\* C7 (amended): in default mode the run gives exactly two Parts: the first
\* statement alone, without directive or want, then the directive's line
\* together with the last statement, carrying the directive and no want; only
\* with simulate_repl does it give the three Parts, one per line.
C7_DirectiveMidBlockByMode ==
    (pc = "done" /\ string = ScenarioF) =>
        IF simulate_repl
        THEN /\ Len(all_parts) = 3
             /\ PlainPart(all_parts[1], << <<"a">> >>)
             /\ IsPart(all_parts[2])
             /\ all_parts[2].exec_lines = << <<"D">> >>
             /\ PartDirectives(all_parts[2]) = <<"SKIP">>
             /\ PlainPart(all_parts[3], << <<"a">> >>)
        ELSE /\ Len(all_parts) = 2
             /\ PlainPart(all_parts[1], << <<"a">> >>)
             /\ IsPart(all_parts[2])
             /\ all_parts[2].exec_lines = << <<"D">>, <<"a">> >>
             /\ PartDirectives(all_parts[2]) = <<"SKIP">>
             /\ WantOf(all_parts[2]) = <<>>
             /\ all_parts[2].line_offset = 1

\* C7 witness: the scenario parsed in default mode
C7_Witness == pc = "done" /\ string = ScenarioF /\ ~simulate_repl /\ Len(all_parts) = 2

ScenarioAssignPrint == << <<">", ">", ">", " ", "a">>, <<">", ">", ">", " ", "c">>, <<"t">> >>

TwoPartsAssignPrint ==
    /\ Len(all_parts) = 2
    /\ IsPart(all_parts[1])
    /\ all_parts[1].exec_lines = << <<"a">> >>
    /\ IsNone(all_parts[1].want_lines)
    /\ IsPart(all_parts[2])
    /\ all_parts[2].exec_lines = << <<"c">> >>
    /\ all_parts[2].want_lines = Some(<< <<"t">> >>)

\* C8 (as stated): an assignment, then a print call, then a non-empty want
\* give exactly two Parts: the assignment without want, and the print call
\* with the want and use_eval = false.
C8_AssignThenPrint ==
    (pc = "done" /\ string = ScenarioAssignPrint) =>
        (TwoPartsAssignPrint /\ ~all_parts[2].use_eval)

\* C8 (amended): the two Parts are as stated but the second, whose final
\* statement is the expression statement of the print call, has
\* use_eval = true; the first has use_eval = false.
C8_AssignThenPrintEval ==
    (pc = "done" /\ string = ScenarioAssignPrint) =>
        (TwoPartsAssignPrint /\ all_parts[2].use_eval /\ ~all_parts[1].use_eval)

\* C8 witness: the scenario was parsed
C8_Witness ==
    pc = "done" /\ string = ScenarioAssignPrint /\ Len(all_parts) = 2 /\ ~simulate_repl

\* the labeler stands at a source line whose statement no later line completes
UnbalancedToEnd ==
    /\ pc = "label"
    /\ line_idx <= Len(string)
    /\ CurrState(prev_state, string[line_idx], state_indent) = DSRC
    /\ LET indent == NextIndent(prev_state, DSRC, string[line_idx], state_indent) IN
       \A k \in line_idx..Len(string) :
           ~is_balanced_statement(
               [j \in 1..(k - line_idx + 1) |->
                   Drop(Drop(string[line_idx + j - 1], indent), 4)])

\* what parse has returned is the complete sequence
CompleteResult ==
    /\ orig_ex = ""
    /\ all_parts = yielded
    /\ Len(labeled_lines) = Len(string)
    /\ chunk_idx = Len(grouped_lines) + 1
    /\ lineno = Len(string)
    /\ Len(SelectSeq(all_parts, LAMBDA x : ~IsPart(x)))
           = Len(SelectSeq(grouped_lines, LAMBDA ch : ch.kind = "text"))
    /\ \A g \in 1..Len(grouped_lines) :
           grouped_lines[g].kind = "tuple" => Len(PartsOfGroup(g)) >= 1

\* C9: if the input ends while a source statement is still unbalanced, parse
\* raises the error that wraps the cause and returns nothing; and parse either
\* returns the complete sequence of Parts and text runs or raises, never a
\* truncated sequence.
C9_NoPartialSuccess ==
    /\ [](pc = "error" => (orig_ex # "" /\ all_parts = <<>>))
    /\ [](pc = "done" => CompleteResult)
    /\ [][UnbalancedToEnd =>
            /\ pc' = "error"
            /\ orig_ex' \in {"ill-formed doctest", "Bad indentation in doctest"}
            /\ all_parts' = <<>>]_vars

\* C9 witness: the input ended inside a statement that had pulled a line,
\* and parse raised
C9_Witness ==
    /\ pc = "error"
    /\ orig_ex = "ill-formed doctest"
    /\ Len(string) >= 2
    /\ all_parts = <<>>

IsTextLine(line) == ~startswith(strip(line), PS1)

\* a line that is one complete statement behind a PS1 prompt
IsStatementLine(line) ==
    /\ startswith(line, PS1)
    /\ LET body == <<CommentHack(Drop(line, 4))>> IN
       ast_parse(body).ok /\ ast_parse(body).body # <<>>

Labeling == pc \in {"label", "package", "done"}

\* C11: the labeled lines have exactly one entry per physical input line, in
\* input order, each with the input line unchanged; a line pulled to complete
\* a statement is labeled once, as source, and the outer loop goes on after it.
C11_LineConservation ==
    /\ [](Labeling =>
            /\ Len(labeled_lines) = line_idx - 1
            /\ \A i \in 1..Len(labeled_lines) : labeled_lines[i][2] = string[i]
            /\ pc # "label" => Len(labeled_lines) = Len(string))
    /\ [][(pc = "label" /\ pc' = "label" /\ line_idx' > line_idx + 1) =>
            \A i \in line_idx..(line_idx' - 1) :
                labeled_lines'[i] = <<DSRC, string[i]>>]_vars

\* C11 witness: the labeler returned after pulling a line that has no prompt
C11_Witness ==
    /\ pc = "package"
    /\ \E i \in 1..Len(labeled_lines) :
          /\ labeled_lines[i][1] = DSRC
          /\ ~HasPrompt(Drop(string[i], LeadingSpaces(string[i])))

\* the entries before entry i that begin a source run
SrcRunStarts(i) ==
    {j \in 1..(i - 1) :
        labeled_lines[j][1] = DSRC /\ (j = 1 \/ labeled_lines[j - 1][1] # DSRC)}

\* the indentation of the first line of the source run entered last before
\* entry i
RunIndent(i) ==
    LET j == CHOOSE j \in SrcRunStarts(i) : \A k \in SrcRunStarts(i) : k <= j
    IN  IndentOf(labeled_lines[j][2])

\* C12 (as stated): every line labeled WANT is indented at least as much as
\* its source run and, without the columns of that indentation, does not
\* begin with '>>> ', a prompt with an empty body included.
C12_WantShape ==
    \A i \in 1..Len(labeled_lines) :
        labeled_lines[i][1] = WANT =>
            /\ SrcRunStarts(i) # {}
            /\ IndentOf(labeled_lines[i][2]) >= RunIndent(i)
            /\ ~startswith(Drop(labeled_lines[i][2], RunIndent(i)), PS1)

\* the labeler stands at a line that it labels as source
SourceStep ==
    /\ pc = "label"
    /\ line_idx <= Len(string)
    /\ CurrState(prev_state, string[line_idx], state_indent) = DSRC

\* the state_indent with which that line is completed
SourceIndent == NextIndent(prev_state, DSRC, string[line_idx], state_indent)

\* what is given to the balance oracle once the lines up to `last` are taken
SourceParts(last) ==
    [j \in 1..(last - line_idx + 1) |->
        Drop(Drop(string[line_idx + j - 1], SourceIndent), 4)]

\* the first four characters after state_indent, stripped, are a prompt or empty
AcceptedPrefix(line) ==
    strip(Take(Drop(line, SourceIndent), 4)) \in {<<">", ">", ">">>, <<".", ".", ".">>, <<>>}

\* after state_indent the line begins with '>>> ' or '... ', or is blank
StrictPrefix(line) ==
    \/ startswith(Drop(line, SourceIndent), PS1)
    \/ startswith(Drop(line, SourceIndent), PS2)
    \/ strip(Drop(line, SourceIndent)) = <<>>

\* line k is pulled to complete the statement of the current line: the
\* statement is unbalanced up to line k - 1 and the lines pulled before k
\* were accepted
IsPulled(k) ==
    /\ k > line_idx
    /\ \A m \in line_idx..(k - 1) : ~is_balanced_statement(SourceParts(m))
    /\ \A m \in (line_idx + 1)..(k - 1) : AcceptedPrefix(string[m])

BadIndentation == pc' = "error" /\ orig_ex' = "Bad indentation in doctest"

\* C13 (as stated): a pulled line is accepted as source only if, after
\* removal of state_indent columns, it begins with '>>> ' or '... ' or is
\* blank; every other pulled line makes the parse fail with a parse error.
C13_PulledPrefixExact ==
    [][SourceStep =>
          \A k \in (line_idx + 1)..Len(string) :
              (IsPulled(k) /\ ~StrictPrefix(string[k])) => BadIndentation]_vars

\* C13 (amended): a pulled line is accepted as source if and only if its
\* first four characters after removal of state_indent columns are, blanks
\* stripped, '>>>', '...' or empty: a prompt shifted by one column and a
\* line without prompt behind four blanks are accepted; every other pulled
\* line makes the parse fail with the error of bad indentation.
C13_PulledPrefixStripped ==
    [][SourceStep =>
          \A k \in (line_idx + 1)..Len(string) :
              IsPulled(k) =>
                  IF AcceptedPrefix(string[k])
                  THEN /\ Len(labeled_lines') >= k
                       /\ labeled_lines'[k] = <<DSRC, string[k]>>
                       /\ orig_ex' = "Bad indentation in doctest" =>
                              \E m \in (k + 1)..Len(string) :
                                  IsPulled(m) /\ ~AcceptedPrefix(string[m])
                  ELSE BadIndentation]_vars

\* C13 witness: a statement was completed by a pulled line whose prompt is
\* shifted by one column
C13_Witness ==
    /\ pc = "done"
    /\ \E i \in 2..Len(labeled_lines) :
          /\ labeled_lines[i - 1] = <<DSRC, Line(0, PS1, <<"(">>)>>
          /\ labeled_lines[i] = <<DSRC, Line(1, PS1, <<")">>)>>

\* ceil(log10(n)) for 1 <= n <= 10^4
CeilLog(n) == CHOOSE d \in 0..4 : 10^d >= n /\ \A e \in 0..(d - 1) : 10^e < n

\* C14 (as stated): with linenos true and n_digits not supplied, the k-th
\* source line is preceded by the number startline + line_offset + k in a
\* field of width ceil(log10(startline + n_lines)) and each want line by
\* spaces of that width, so the number column and the blank column have
\* equal width for every Part and every startline.
C14_ColumnAlignment ==
    (pc = "done" /\ ~IsNone(formatted) /\ formatted[1].linenos /\ formatted[1].want) =>
        LET f == formatted[1]
            part == all_parts[f.part]
            width == CeilLog(f.startline + NLines(part))
            lines == SplitNL(f.text, <<>>)
            n_exec == Len(part.exec_lines)
        IN  /\ Len(lines) = NLines(part)
            /\ \A k \in 1..n_exec :
                  /\ Len(lines[k]) = width + 5 + Len(part.exec_lines[k])
                  /\ Drop(lines[k], width) = <<" ">> \o PS1 \o part.exec_lines[k]
                  /\ Drop(Take(lines[k], width), width - Len(Decimal(f.startline + part.line_offset + k - 1)))
                         = Decimal(f.startline + part.line_offset + k - 1)
            /\ \A j \in 1..Len(WantOf(part)) :
                  lines[n_exec + j] = Spaces(width) \o <<" ">> \o WantOf(part)[j]

\* the number of top-level statements of the lines
StatementCount(lines) == Len(ast_parse(lines).body)

\* C15 (as stated): in default mode, whenever the want of a group is not
\* empty and eval_final is true, the Part that carries the want and
\* use_eval = true holds exactly one top-level statement, the final bare
\* expression, and all statements before it are in earlier Parts without want.
C15_FinalExpressionIsolated ==
    \A g \in PackagedGroups :
        LET parts == PartsOfGroup(g)
            final == parts[Len(parts)]
        IN  (~simulate_repl /\ grouped_lines[g].wlines # <<>> /\ final.use_eval) =>
                /\ ast_parse(final.exec_lines).ok
                /\ StatementCount(final.exec_lines) = 1
                /\ LastIsExpr(final.exec_lines)
                /\ \A i \in 1..(Len(parts) - 1) : IsNone(parts[i].want_lines)

\* the source run of group g without the indentation of the block, and
\* without the prompts
GroupSource(g) == Unindent(grouped_lines[g].slines, IndentOf(grouped_lines[g].slines[1]))
GroupExec(g) == Unindent(GroupSource(g), 4)

\* the PS1 indices of group g and whether its last statement is an expression
GroupLoc(g) == locate_ps1_linenos(GroupSource(g), bug16806)

\* the hard-break points: every PS1 index whose own line has a directive and,
\* for every other PS1 index whose statement block has a directive, the index
\* and the next PS1 index
HardBreaks(ps1_linenos, exec_source_lines) ==
    LET n == Len(ps1_linenos)
        own(k) == extract(<<PyIndex(exec_source_lines, ps1_linenos[k])>>) # <<>>
        stop(k) == IF k = n THEN Len(exec_source_lines) ELSE ps1_linenos[k + 1]
        block(k) == extract(PySlice(exec_source_lines, ps1_linenos[k], stop(k))) # <<>>
    IN  {ps1_linenos[k] : k \in {k \in 1..n : own(k)}}
        \cup {ps1_linenos[k] : k \in {k \in 1..n : ~own(k) /\ block(k)}}
        \cup {ps1_linenos[k + 1] : k \in {k \in 1..(n - 1) : ~own(k) /\ block(k)}}

\* the start indices, within the source run, of the Parts emitted for group g
StartSet(g) ==
    {PartsOfGroup(g)[i].line_offset - ChunkBase(g) : i \in 1..Len(PartsOfGroup(g))}

\* C16 (as stated): in default mode the start indices of the Parts of a group
\* are 0, the hard-break points, and the last PS1 index when the want is not
\* empty and eval_final is true; a group without directives and with
\* eval_final false or no want is exactly one Part.
C16_StartSet ==
    \A g \in PackagedGroups :
        ~simulate_repl =>
            LET loc == GroupLoc(g)
                breaks == HardBreaks(loc.ps1_linenos, GroupExec(g))
                final == IF grouped_lines[g].wlines # <<>> /\ loc.eval_final
                         THEN {loc.ps1_linenos[Len(loc.ps1_linenos)]} ELSE {}
            IN  /\ StartSet(g) = {0} \cup breaks \cup final
                /\ Len(PartsOfGroup(g)) = Cardinality(StartSet(g))

\* the Parts of group g are exactly those that start at the given indices,
\* each ending where the next begins and the last at the end of the run, and
\* only the last carries the want
SpansFrom(g, starts) ==
    LET parts == PartsOfGroup(g)
        n == Len(GroupExec(g))
    IN  /\ Len(parts) = Len(starts)
        /\ \A m \in 1..Len(starts) :
              /\ parts[m].line_offset - ChunkBase(g) = starts[m]
              /\ Len(parts[m].exec_lines)
                    = (IF m = Len(starts) THEN n ELSE starts[m + 1]) - starts[m]
              /\ m < Len(starts) => IsNone(parts[m].want_lines)
              /\ m = Len(starts) => ~IsNone(parts[m].want_lines)

\* C17 (as stated): with simulate_repl a group whose PS1 indices are
\* p_0 < ... < p_k is emitted as exactly k+1 Parts, the m-th spanning
\* [p_m, p_{m+1}) and the last [p_k, end of run); only the last carries the
\* want, and directive breaks do not change the boundaries.
C17_ReplParts ==
    \A g \in PackagedGroups :
        (simulate_repl /\ GroupLoc(g).ps1_linenos # <<>>) =>
            SpansFrom(g, GroupLoc(g).ps1_linenos)

\* C17 (amended): with simulate_repl a group with two or more PS1 indices
\* p_0 < ... < p_k is emitted as exactly k+1 Parts, the m-th spanning
\* [p_m, p_{m+1}) and the last [p_k, end of run); a group with at most one PS1
\* index is emitted as exactly one Part that spans the whole run from index 0,
\* also when its PS1 index is not 0; only the last Part carries the want, and
\* directive breaks do not change the boundaries.
C17_ReplPartsFromSecond ==
    \A g \in PackagedGroups :
        simulate_repl =>
            IF Len(GroupLoc(g).ps1_linenos) >= 2
            THEN SpansFrom(g, GroupLoc(g).ps1_linenos)
            ELSE SpansFrom(g, <<0>>)

\* C17 witness: a group of three statements with a directive on the second
\* was emitted in REPL mode
C17_Witness ==
    /\ simulate_repl
    /\ \E g \in PackagedGroups :
          /\ Len(GroupLoc(g).ps1_linenos) = 3
          /\ HardBreaks(GroupLoc(g).ps1_linenos, GroupExec(g)) # {}
          /\ Len(PartsOfGroup(g)) = 3

\* the concatenation of the exec_lines of a sequence of Parts
RECURSIVE ExecOf(_)
ExecOf(parts) ==
    IF parts = <<>> THEN <<>> ELSE Head(parts).exec_lines \o ExecOf(Tail(parts))

\* C18: in both modes the Parts emitted for one group partition its source
\* run: their exec_lines concatenated in emission order are the exec lines of
\* the run, each exactly once and in order, also when the first PS1 index is
\* not 0.
C18_GroupPartition ==
    \A g \in PackagedGroups : ExecOf(PartsOfGroup(g)) = GroupExec(g)

\* C19: in every label sequence of the labeler a WANT run directly follows a
\* source run (a WANT label never follows a TEXT label and never begins the
\* sequence), so the assertion of the grouper never fires and every (S, W)
\* group has at least one source line.
C19_WantFollowsSource ==
    /\ \A i \in 1..Len(labeled_lines) :
          labeled_lines[i][1] = WANT =>
              i > 1 /\ labeled_lines[i - 1][1] \in {DSRC, WANT}
    /\ orig_ex # "AssertionError"
    /\ \A g \in 1..Len(grouped_lines) :
          grouped_lines[g].kind = "tuple" => grouped_lines[g].slines # <<>>

\* C19 witness: the grouper made a group with a want out of labels in which
\* text, source and want follow one another
C19_Witness ==
    /\ pc \in {"package", "done"}
    /\ \E g \in 1..Len(grouped_lines) :
          /\ grouped_lines[g].kind = "tuple"
          /\ grouped_lines[g].wlines # <<>>
    /\ \E i \in 1..(Len(labeled_lines) - 2) :
          /\ labeled_lines[i][1] = TEXT
          /\ labeled_lines[i + 1][1] = DSRC
          /\ labeled_lines[i + 2][1] = WANT

\* C20: at every step of the labeler state_indent is 0 when the state is TEXT
\* and, when the state is SRC or WANT, the indentation of the first line of
\* the source run entered last; it changes only on a transition into TEXT or
\* into SRC from a different state.
C20_StateIndent ==
    /\ [](pc = "label" =>
            /\ prev_state = TEXT => state_indent = 0
            /\ prev_state \in {DSRC, WANT} =>
                  /\ SrcRunStarts(Len(labeled_lines) + 1) # {}
                  /\ state_indent = RunIndent(Len(labeled_lines) + 1))
    /\ [][state_indent' # state_indent =>
            /\ prev_state' # prev_state
            /\ prev_state' \in {TEXT, DSRC}]_vars

\* C20 witness: the labeler has entered an indented source run from a want
\* whose source run had another indentation
C20_Witness ==
    /\ pc = "label"
    /\ prev_state = DSRC
    /\ state_indent > 0
    /\ \E i \in 1..Len(labeled_lines) :
          labeled_lines[i][1] = WANT /\ RunIndent(i) # state_indent

\* C21: every input line whose stripped text begins with '>>> ' is labeled
\* SRC, whatever the state of the labeler before it and whatever its
\* indentation; it is never labeled TEXT or WANT.
C21_PromptLinesAreSource ==
    \A i \in 1..Len(labeled_lines) :
        startswith(strip(labeled_lines[i][2]), PS1) => labeled_lines[i][1] = DSRC

\* C22: the first orig line of every emitted Part begins with '>>> '; no Part
\* starts on a line whose prefix is '... ' or on a continuation line without
\* prompt.
C22_PartStartsOnPS1 ==
    \A k \in 1..Len(Emitted) :
        IsPart(Emitted[k]) =>
            /\ Emitted[k].orig_lines # <<>>
            /\ startswith(Emitted[k].orig_lines[1], PS1)

\* the exec lines of group g as _workaround_16806 receives them, the
\* statements ast.parse finds in them, the lines they begin on and the line
\* numbers that the Python of the run reports for them
GroupHacked(g) == [i \in 1..Len(GroupExec(g)) |-> CommentHack(GroupExec(g)[i])]
GroupBody(g) == ast_parse(GroupHacked(g)).body
GroupFirsts(g) == [k \in 1..Len(GroupBody(g)) |-> GroupBody(g)[k].first]
GroupCandidates(g) ==
    [k \in 1..Len(GroupBody(g)) |-> NodeLineno0(GroupBody(g)[k], bug16806)]

\* the statements beginning at firsts occupy contiguous spans of the n lines,
\* and every candidate lies in the span of its statement
InOwnSpans(firsts, cands, n) ==
    /\ firsts # <<>> /\ firsts[1] = 0
    /\ \A k \in 1..Len(firsts) :
          /\ k < Len(firsts) => firsts[k] < firsts[k + 1]
          /\ firsts[k] <= cands[k]
          /\ cands[k] < (IF k = Len(firsts) THEN n ELSE firsts[k + 1])

\* the balance oracle reports a range of lines balanced exactly when it is a
\* union of whole statement spans
OracleExact(lines, firsts) ==
    \A a \in 0..Len(lines) : \A b \in a..Len(lines) :
        is_balanced_statement(PySlice(lines, a, b))
            <=> (a = b \/ ({a, b} \subseteq Range(firsts) \cup {Len(lines)}))

\* the tuple groups the grouper made
TupleGroups == {g \in 1..Len(grouped_lines) : grouped_lines[g].kind = "tuple"}

\* C23: for exec lines that form top-level statements in contiguous spans,
\* candidates that each lie in the span of their statement, and an oracle
\* that reports a range balanced exactly when it is a union of whole spans,
\* the reverse walk ends with no index below 0 and returns exactly the set of
\* the first lines of the statements.
C23_ReverseWalk ==
    \A g \in TupleGroups :
        (/\ ast_parse(GroupHacked(g)).ok
         /\ InOwnSpans(GroupFirsts(g), GroupCandidates(g), Len(GroupHacked(g)))
         /\ OracleExact(GroupHacked(g), GroupFirsts(g)))
        => workaround_16806(GroupCandidates(g), GroupHacked(g))
              = Range(GroupFirsts(g))

\* C23 witness: a group was packaged in which a statement follows a
\* multi-line string that Python reported at its last line, the conditions
\* on spans and oracle holding
C23_Witness ==
    /\ pc = "done"
    /\ \E g \in PackagedGroups :
          /\ ast_parse(GroupHacked(g)).ok
          /\ InOwnSpans(GroupFirsts(g), GroupCandidates(g), Len(GroupHacked(g)))
          /\ OracleExact(GroupHacked(g), GroupFirsts(g))
          /\ Len(GroupFirsts(g)) >= 2
          /\ GroupCandidates(g)[1] # GroupFirsts(g)[1]

\* C22 witness: the Parts of a group were emitted in which a statement begins
\* on a line with the prefix '... '
C22_Witness ==
    /\ pc = "done"
    /\ \E g \in PackagedGroups :
          /\ PartsOfGroup(g) # <<>>
          /\ \E k \in 1..Len(GroupBody(g)) :
                Take(GroupSource(g)[GroupBody(g)[k].first + 1], 4) = PS2

\* C24 (as stated): every Part the packager emits has at least one exec line, in both
\* modes; when the only statement of a group is a bare expression and the
\* group has a want, exactly one Part is emitted, with use_eval true.
C24_NoEmptyPart ==
    /\ \A k \in 1..Len(Emitted) :
          IsPart(Emitted[k]) => Emitted[k].exec_lines # <<>>
    /\ \A g \in PackagedGroups :
          (/\ Len(GroupBody(g)) = 1
           /\ GroupBody(g)[1].kind = "Expr"
           /\ grouped_lines[g].wlines # <<>>)
          => /\ Len(PartsOfGroup(g)) = 1
             /\ PartsOfGroup(g)[1].use_eval

\* C24 (amended): every Part the packager emits has at least one exec line,
\* in both modes; when the only statement of a group is a bare expression and
\* the group has a want, the last Part has use_eval true, and it is the only
\* Part if the expression begins on the first line of the run or the mode is
\* simulate_repl; in default mode an expression that begins on a later line
\* (after comment lines) is preceded by one Part that holds the lines before.
C24_NoEmptyPartFromFirstLine ==
    /\ \A k \in 1..Len(Emitted) :
          IsPart(Emitted[k]) => Emitted[k].exec_lines # <<>>
    /\ \A g \in PackagedGroups :
          (/\ Len(GroupBody(g)) = 1
           /\ GroupBody(g)[1].kind = "Expr"
           /\ grouped_lines[g].wlines # <<>>)
          => /\ PartsOfGroup(g) # <<>>
             /\ PartsOfGroup(g)[Len(PartsOfGroup(g))].use_eval
             /\ IF GroupBody(g)[1].first = 0 \/ simulate_repl
                THEN Len(PartsOfGroup(g)) = 1
                ELSE /\ Len(PartsOfGroup(g)) = 2
                     /\ Len(PartsOfGroup(g)[1].exec_lines) = GroupBody(g)[1].first
                     /\ IsNone(PartsOfGroup(g)[1].want_lines)

\* C24 witness: a group whose only statement is a bare expression on its
\* first line, with a want, was packaged in default mode
C24_Witness ==
    /\ pc = "done"
    /\ ~simulate_repl
    /\ \E g \in PackagedGroups :
          /\ Len(GroupBody(g)) = 1
          /\ GroupBody(g)[1].kind = "Expr"
          /\ GroupBody(g)[1].first = 0
          /\ grouped_lines[g].wlines # <<>>
          /\ Len(PartsOfGroup(g)) = 1

\* the texts that may match the want of a call: stdout alone when nothing
\* was evaluated, the repr of the value alone when stdout is empty, both
\* otherwise
Candidates(c) ==
    IF c.got_eval = not_evaled THEN {c.got_stdout}
    ELSE IF c.got_stdout = <<>> THEN {repr(c.got_eval)}
    ELSE {c.got_stdout, repr(c.got_eval)}

\* C25: check_got_vs_want raises GotWantException exactly when no applicable
\* candidate matches the want; when it raises with stdout and an evaluated
\* value both present, the got it reports is derived from stdout.
C25_GotVsWant ==
    ~IsNone(checked) =>
        /\ checked[1].result.raised
              <=> \A t \in Candidates(checked[1]) :
                     ~check_output(t, PartWant(all_parts[checked[1].part]),
                                   checked[1].accepted)
        /\ (/\ checked[1].result.raised
            /\ checked[1].got_eval # not_evaled
            /\ checked[1].got_stdout # <<>>)
           => checked[1].result.got
                 = Some(normalize(checked[1].got_stdout,
                                  PartWant(all_parts[checked[1].part]))[1])

\* C25 witness: a call with stdout and an evaluated value in which stdout did
\* not match and the repr of the value did
C25_Witness ==
    /\ ~IsNone(checked)
    /\ checked[1].got_eval # not_evaled
    /\ checked[1].got_stdout # <<>>
    /\ checked[1].got_stdout \notin checked[1].accepted
    /\ ~checked[1].result.raised

====
